---------------------------- MODULE Spec2Model ----------------------------
(***************************************************************************)
(* Ingestion-and-retrieval pipeline of the P&S support chatbot:            *)
(*   src/ingestion/loaders.py  path grammar, checksum, record builder,     *)
(*                             chunk builder                               *)
(*   src/rag/vectorstore.py    SimpleVectorStore (JSON file store)         *)
(*   src/ingestion/ingest.py   reindex_document_chunks, main_index_test    *)
(*                                                                         *)
(* Python strings, paths among them, are sequences of one-character        *)
(* strings, None is the value NoneVal, and a call that may                 *)
(* raise returns a record whose field "raised" names the exception ("" =   *)
(* normal return).                                                         *)
(***************************************************************************)
EXTENDS Integers, Sequences, FiniteSets, TLC

VARIABLES
    fs,      \* the raw-data directory: absolute path -> file bytes, or Absent
    data,    \* SimpleVectorStore._data of the process-wide store instance
    file,    \* content of <persist_directory>/documents.json
    clean,   \* every add/delete call on the instance so far returned normally
    faults,  \* environment failures injected so far (bounded by MaxFaults)
    last,    \* the call that produced this state, its arguments and its result
    th       \* the threads of the concurrent specification

vars == <<fs, data, file, clean, faults, last, th>>

-----------------------------------------------------------------------------
(* Bounds of the model *)

MaxEntries == 3     \* entries the store may hold
MaxFaults == 1      \* environment failures per behaviour
MaxBatch == 2       \* discovered files handed to one batch
MaxK == 3           \* largest k of a search

-----------------------------------------------------------------------------
(* Python values *)

NoneVal == <<"None">>

Min(a, b) == IF a <= b THEN a ELSE b

Digits == {"0", "1", "2", "3", "4", "5", "6", "7", "8", "9"}

\* s[a..b] as a sequence (empty when a > b)
Slice(s, a, b) == [i \in 1..(b - a + 1) |-> s[a + i - 1]]

\* F(x), with x evaluated once
Bind(x, F(_)) == CHOOSE y \in {F(v) : v \in {x}} : TRUE

\* dict.get(key): the value, or None when the key is missing
DictGet(m, key) == IF key \in DOMAIN m THEN m[key] ELSE NoneVal

-----------------------------------------------------------------------------
(* Strings used in paths *)

S_raw == <<"r", "a", "w">>
S_tmp == <<"t", "m", "p">>
S_processos == <<"p", "r", "o", "c", "e", "s", "s", "o", "s">>
S_sistemas == <<"s", "i", "s", "t", "e", "m", "a", "s">>
S_outra == <<"o", "u", "t", "r", "a">>
S_erp == <<"e", "r", "p">>
S_d_v1 == <<"d", "_", "_", "v", "1">>
S_dotdot == <<".", ".">>
S_dot == <<".">>

\* file names
F_a == <<"a", "_", "_", "v", "2", "0", "2", "4", "-", "0", "1", ".", "t", "x", "t">>
F_b == <<"b", "_", "_", "v", "1", ".", "t", "x", "t">>
F_c == <<"c", ".", "t", "x", "t">>

\* RAW_DATA_DIR (config.py); the model's root is the directory "raw"
RAW_DATA_DIR == S_raw

-----------------------------------------------------------------------------
(* os.path helpers, as parse_path_metadata uses them (POSIX) *)

\* index of the last c in s[1..i], 0 when there is none (str.rfind)
RECURSIVE rfind_from(_, _, _)
rfind_from(s, c, i) ==
    IF i = 0 THEN 0
    ELSE IF s[i] = c THEN i
    ELSE rfind_from(s, c, i - 1)

rfind(s, c) == rfind_from(s, c, Len(s))

\* index of the first c in s[i..], 0 when there is none (str.find)
RECURSIVE find_from(_, _, _)
find_from(s, c, i) ==
    IF i > Len(s) THEN 0
    ELSE IF s[i] = c THEN i
    ELSE find_from(s, c, i + 1)

\* str.split("/") from position i on: the segments between separators
RECURSIVE split_sep_from(_, _)
split_sep_from(s, i) ==
    LET n == find_from(s, "/", i)
    IN IF n = 0 THEN <<Slice(s, i, Len(s))>>
       ELSE <<Slice(s, i, n - 1)>> \o split_sep_from(s, n + 1)

split_sep(s) == split_sep_from(s, 1)

\* os.path.join of segments
RECURSIVE join_sep(_)
join_sep(parts) ==
    IF Len(parts) = 1 THEN parts[1]
    ELSE parts[1] \o <<"/">> \o join_sep(Tail(parts))

\* length of the common prefix of two segment sequences
RECURSIVE CommonPrefixLen(_, _)
CommonPrefixLen(a, b) ==
    IF a = <<>> \/ b = <<>> \/ Head(a) # Head(b) THEN 0
    ELSE 1 + CommonPrefixLen(Tail(a), Tail(b))

\* os.path.relpath(path, start).split(os.sep) on normalised paths: one ".."
\* per segment of start left after the common prefix, then the rest of path;
\* "." when nothing is left
relpath_parts(path, start) ==
    Bind(<<split_sep(path), split_sep(start)>>, LAMBDA t :
      Bind(CommonPrefixLen(t[1], t[2]), LAMBDA c :
        IF c = Len(t[1]) /\ c = Len(t[2]) THEN <<S_dot>>
        ELSE [i \in 1..(Len(t[2]) - c) |-> S_dotdot]
             \o Slice(t[1], c + 1, Len(t[1]))))

\* the paths of the model
P_a == join_sep(<<S_raw, S_processos, F_a>>)           \* raw/processos/a__v2024-01.txt
P_b == join_sep(<<S_raw, S_sistemas, S_erp, F_b>>)     \* raw/sistemas/erp/b__v1.txt
P_c == join_sep(<<S_raw, S_processos, F_c>>)           \* raw/processos/c.txt
P_x == join_sep(<<S_raw, S_outra, F_a>>)               \* raw/outra/a__v2024-01.txt
P_s == join_sep(<<S_raw, S_sistemas, F_b>>)            \* raw/sistemas/b__v1.txt
P_r == join_sep(<<S_raw, F_a>>)                        \* raw/a__v2024-01.txt
P_t == join_sep(<<S_tmp, S_processos, F_a>>)           \* tmp/processos/a__v2024-01.txt
P_d == join_sep(<<S_raw, S_processos, S_d_v1, F_a>>)   \* raw/processos/d__v1/a__v2024-01.txt
P_e == join_sep(<<S_raw, S_processos, S_d_v1, F_c>>)   \* raw/processos/d__v1/c.txt

KnownPaths == {P_a, P_b, P_c, P_x, P_s, P_r, P_t, P_d, P_e}

\* os.path.splitext: split at the last dot of the last segment, unless only
\* dots precede it in that segment
splitext(s) ==
    Bind(<<rfind(s, "/"), rfind(s, ".")>>, LAMBDA ix :
      IF ix[2] > ix[1] /\ \E i \in (ix[1] + 1)..(ix[2] - 1) : s[i] # "."
      THEN <<Slice(s, 1, ix[2] - 1), Slice(s, ix[2], Len(s))>>
      ELSE <<s, <<>>>>)

\* index where the first "__" of s starts, 0 when there is none
RECURSIVE find_sep_from(_, _)
find_sep_from(s, i) ==
    IF i + 1 > Len(s) THEN 0
    ELSE IF s[i] = "_" /\ s[i + 1] = "_" THEN i
    ELSE find_sep_from(s, i + 1)

find_sep(s) == find_sep_from(s, 1)

\* _VERSION_RE = ^v\d{4}-\d{2}(-\d{2})?$
version_re_match(v) ==
    LET dig(i) == v[i] \in Digits
    IN /\ Len(v) \in {8, 11}
       /\ v[1] = "v"
       /\ dig(2) /\ dig(3) /\ dig(4) /\ dig(5)
       /\ v[6] = "-"
       /\ dig(7) /\ dig(8)
       /\ (Len(v) = 11 => v[9] = "-" /\ dig(10) /\ dig(11))

-----------------------------------------------------------------------------
(* Path grammar parser: loaders.py parse_path_metadata *)

\* Returns [raised, meta, err]: raised = "ValueError" for a path outside the
\* root, too short or of an unknown category; err.reason set (and meta empty)
\* for a name without "__"; otherwise meta with an optional _version_warning.
RaiseValueError == [raised |-> "ValueError", meta |-> <<>>, err |-> <<>>]

\* the part of the parser that works on the file name
parse_filename(category, system, filename) ==
    Bind(splitext(filename)[1], LAMBDA name :
      Bind(find_sep(name), LAMBDA at :
        IF at = 0
        THEN [raised |-> "", meta |-> <<>>,
              err |-> [reason |-> <<"missing_version_separator">>]]
        ELSE
        Bind(Slice(name, at + 2, Len(name)), LAMBDA version :
          [raised |-> "",
           meta |-> IF version_re_match(version)
                    THEN [category |-> category, system |-> system,
                          title |-> Slice(name, 1, at - 1), version |-> version]
                    ELSE [category |-> category, system |-> system,
                          title |-> Slice(name, 1, at - 1), version |-> version,
                          _version_warning |-> "non_standard_version_format"],
           err |-> <<>>])))

\* Faulty variant of parse_path_metadata: the system is never assigned
parse_path_metadata_no_system(source_path, root_dir) ==
    Bind(relpath_parts(source_path, root_dir), LAMBDA parts :
      IF Len(parts) < 2 THEN RaiseValueError
      ELSE IF parts[1] \notin {S_processos, S_sistemas} THEN RaiseValueError
      ELSE IF parts[1] = S_sistemas
           THEN IF Len(parts) < 3 THEN RaiseValueError
                ELSE parse_filename(parts[1], NoneVal, parts[3])
           ELSE parse_filename(parts[1], NoneVal, parts[2]))

\* Faulty variant of parse_path_metadata: the category is not checked
parse_path_metadata_any_category(source_path, root_dir) ==
    Bind(relpath_parts(source_path, root_dir), LAMBDA parts :
      IF Len(parts) < 2 THEN RaiseValueError
      ELSE IF parts[1] = S_sistemas
           THEN IF Len(parts) < 3 THEN RaiseValueError
                ELSE parse_filename(parts[1], parts[2], parts[3])
           ELSE parse_filename(parts[1], NoneVal, parts[2]))

parse_path_metadata(source_path, root_dir) ==
    Bind(relpath_parts(source_path, root_dir), LAMBDA parts :
      IF Len(parts) < 2 THEN RaiseValueError
      ELSE IF parts[1] \notin {S_processos, S_sistemas} THEN RaiseValueError
      ELSE IF parts[1] = S_sistemas
           THEN IF Len(parts) < 3 THEN RaiseValueError
                ELSE parse_filename(parts[1], parts[2], parts[3])
           ELSE parse_filename(parts[1], NoneVal, parts[2]))

\* the parser's results on the model's paths, computed once
parse_table == [p \in KnownPaths |-> parse_path_metadata(p, RAW_DATA_DIR)]

parsed(source_path, root_dir) ==
    IF root_dir = RAW_DATA_DIR /\ source_path \in KnownPaths
    THEN parse_table[source_path]
    ELSE parse_path_metadata(source_path, root_dir)

-----------------------------------------------------------------------------
(* Checksum engine: loaders.py compute_checksum *)

\* a path with no readable file behind it (bytes are 0..255)
Absent == <<-1>>

\* Stand-in for hashlib.sha256 over the file's bytes (sequences of small
\* numbers): a polynomial digest, fed byte by byte as h.update is fed block by
\* block; it is collision-free on the contents the model uses.
RECURSIVE sha256_hexdigest(_)
sha256_hexdigest(bytes) ==
    IF bytes = <<>> THEN 7
    ELSE (sha256_hexdigest(Slice(bytes, 1, Len(bytes) - 1)) * 31 + bytes[Len(bytes)]) % 251

HexDigits == <<"0", "1", "2", "3", "4", "5", "6", "7", "8", "9",
               "a", "b", "c", "d", "e", "f">>

\* two hexadecimal characters of a digest below 256
hex(n) == <<HexDigits[(n \div 16) + 1], HexDigits[(n % 16) + 1]>>

\* Faulty variant of compute_checksum: the digest also covers the file's path
compute_checksum_with_path(source_path, fsNow) ==
    IF source_path \notin DOMAIN fsNow \/ fsNow[source_path] = Absent
    THEN [raised |-> "OSError", value |-> NoneVal]
    ELSE [raised |-> "",
          value |-> <<"sha256:">>
                    \o hex(sha256_hexdigest(fsNow[source_path] \o <<Len(source_path)>>))]

\* Returns [raised, value]: open() fails on a missing file; otherwise the digest
\* with the algorithm prefix.
compute_checksum(source_path, fsNow) ==
    IF source_path \notin DOMAIN fsNow \/ fsNow[source_path] = Absent
    THEN [raised |-> "OSError", value |-> NoneVal]
    ELSE [raised |-> "", value |-> <<"sha256:">> \o hex(sha256_hexdigest(fsNow[source_path]))]

-----------------------------------------------------------------------------
(* Document record builder: loaders.py build_document_records *)

\* The body of the for loop for one item: what it appends, and to which
\* list. parse_path_metadata is called outside any try block, so its
\* ValueError leaves the function; only the checksum is guarded.
build_item(root_dir, item, fsNow) ==
    Bind(parsed(item.source_path, root_dir), LAMBDA p :
      IF p.raised # "" THEN [to |-> "raise", raised |-> p.raised]
      ELSE IF DOMAIN p.err # {}
      THEN [to |-> "ign",
            entry |-> [source_path |-> item.source_path, reason |-> p.err.reason]]
      ELSE
      Bind(compute_checksum(item.source_path, fsNow), LAMBDA ck :
        IF ck.raised # ""
        THEN [to |-> "ign",
              entry |-> [source_path |-> item.source_path,
                         reason |-> <<"checksum_error: ", ck.raised>>]]
        ELSE [to |-> "val",
              entry |-> [k \in {"doc_id", "source_path", "category", "system",
                                "title", "version", "extension", "size_bytes",
                                "modified_at"}
                               \cup (DOMAIN p.meta \cap {"_version_warning"}) |->
                           CASE k = "doc_id" -> ck.value
                             [] k = "source_path" -> item.source_path
                             [] k = "extension" -> item.extension
                             [] k = "size_bytes" -> item.size_bytes
                             [] k = "modified_at" -> item.modified_at
                             [] OTHER -> p.meta[k]]]))

\* the entries of `steps` appended to list `to`, in order
RECURSIVE appended(_, _)
appended(steps, to) ==
    IF steps = <<>> THEN <<>>
    ELSE IF Head(steps).to = to
         THEN <<Head(steps).entry>> \o appended(Tail(steps), to)
         ELSE appended(Tail(steps), to)

\* Returns [raised, val, ign]: the loop runs item by item; the first item
\* whose parse raises ends the call without a result.
build_document_records(root_dir, discovered, fsNow) ==
    Bind([i \in 1..Len(discovered) |-> build_item(root_dir, discovered[i], fsNow)],
      LAMBDA steps :
        IF \E i \in 1..Len(steps) : steps[i].to = "raise"
        THEN [raised |-> "ValueError", val |-> <<>>, ign |-> <<>>]
        ELSE [raised |-> "", val |-> appended(steps, "val"),
              ign |-> appended(steps, "ign")])

-----------------------------------------------------------------------------
(* Text chunker: loaders.py extract_text_docs, _normalize_text,            *)
(* chunk_document, build_chunks_for_record                                 *)

\* chunking parameters, set through the environment (config.py); the model
\* runs with windows of one character and no overlap
CHUNK_SIZE == 1
CHUNK_OVERLAP == 0

E_txt == <<".", "t", "x", "t">>
E_pdf == <<".", "p", "d", "f">>
E_docx == <<".", "d", "o", "c", "x">>

\* characters of a text are small numbers; these are "\n", "\r", " "
LF == 10
CR == 13
SP == 32

\* Returns the list of extracted documents; every loader error (a missing
\* file, a corrupt file, an unsupported extension) is caught and gives [].
\* `outcome` is the loader's: "ok" or "extract_fail". A text file is one
\* document; the metadata keys the loaders add themselves are left out.
extract_text_docs(source_path, extention, fsNow, outcome) ==
    IF extention \notin {E_pdf, E_docx, E_txt} THEN <<>>
    ELSE IF outcome # "ok" THEN <<>>
    ELSE IF source_path \notin DOMAIN fsNow \/ fsNow[source_path] = Absent THEN <<>>
    ELSE <<[page_content |-> fsNow[source_path], metadata |-> <<>>]>>

\* "\r\n" and "\r" become "\n"
RECURSIVE normalize_newlines(_)
normalize_newlines(t) ==
    IF t = <<>> THEN <<>>
    ELSE IF Len(t) >= 2 /\ t[1] = CR /\ t[2] = LF
         THEN <<LF>> \o normalize_newlines(Slice(t, 3, Len(t)))
    ELSE IF t[1] = CR THEN <<LF>> \o normalize_newlines(Tail(t))
    ELSE <<t[1]>> \o normalize_newlines(Tail(t))

\* runs of "\n" collapse to one
RECURSIVE collapse_blank_lines(_)
collapse_blank_lines(t) ==
    IF Len(t) < 2 THEN t
    ELSE IF t[1] = LF /\ t[2] = LF THEN collapse_blank_lines(Tail(t))
    ELSE <<t[1]>> \o collapse_blank_lines(Tail(t))

\* str.strip()
RECURSIVE strip(_)
strip(t) ==
    IF t = <<>> THEN <<>>
    ELSE IF t[1] \in {LF, CR, SP} THEN strip(Tail(t))
    ELSE IF t[Len(t)] \in {LF, CR, SP} THEN strip(Slice(t, 1, Len(t) - 1))
    ELSE t

_normalize_text(text) ==
    IF text = <<>> THEN <<>>
    ELSE strip(collapse_blank_lines(normalize_newlines(text)))

\* Stand-in for RecursiveCharacterTextSplitter.split_text: windows of
\* chunk_size characters, consecutive windows sharing chunk_overlap
\* characters; no window for an empty text.
RECURSIVE split_text(_, _, _)
split_text(t, chunk_size, chunk_overlap) ==
    IF t = <<>> THEN <<>>
    ELSE IF Len(t) <= chunk_size THEN <<t>>
    ELSE <<Slice(t, 1, chunk_size)>>
         \o split_text(Slice(t, chunk_size - chunk_overlap + 1, Len(t)),
                       chunk_size, chunk_overlap)

\* the windows of every document in turn, each keeping its document's metadata
RECURSIVE chunk_docs(_, _, _)
chunk_docs(docs, chunk_size, chunk_overlap) ==
    IF docs = <<>> THEN <<>>
    ELSE Bind(split_text(_normalize_text(Head(docs).page_content),
                         chunk_size, chunk_overlap),
              LAMBDA windows :
                [i \in 1..Len(windows) |->
                   [page_content |-> windows[i], metadata |-> Head(docs).metadata]])
         \o chunk_docs(Tail(docs), chunk_size, chunk_overlap)

\* One flat list of chunks over all documents. `outcome` "chunk_raise" is the
\* splitter raising. Returns [raised, chunks].
chunk_document(docs, chunk_size, chunk_overlap, outcome) ==
    IF outcome = "chunk_raise" THEN [raised |-> "Exception", chunks |-> <<>>]
    ELSE [raised |-> "", chunks |-> chunk_docs(docs, chunk_size, chunk_overlap)]

\* dict.update: the keys of `upd` override those of `m`
DictUpdate(m, upd) ==
    [k \in DOMAIN m \cup DOMAIN upd |-> IF k \in DOMAIN upd THEN upd[k] ELSE m[k]]

\* Returns [raised, chunks]: the record's chunks, each stamped with the
\* record's doc_id, source_path, category, system, title and version.
build_chunks_for_record(record, chunk_size, chunk_overlap, fsNow, outcome) ==
    Bind(extract_text_docs(record.source_path, record.extension, fsNow, outcome),
      LAMBDA docs :
        IF docs = <<>> THEN [raised |-> "", chunks |-> <<>>]
        ELSE
        Bind(chunk_document(docs, chunk_size, chunk_overlap, outcome), LAMBDA c :
          IF c.raised # "" THEN c
          ELSE [raised |-> "",
                chunks |-> [i \in 1..Len(c.chunks) |->
                              [page_content |-> c.chunks[i].page_content,
                               metadata |->
                                 DictUpdate(c.chunks[i].metadata,
                                            [doc_id |-> record.doc_id,
                                             source_path |-> record.source_path,
                                             category |-> record.category,
                                             system |-> record.system,
                                             title |-> record.title,
                                             version |-> record.version])]]]))

-----------------------------------------------------------------------------
(* Embedding provider (HuggingFaceEmbeddings, outside the repository)      *)

RECURSIVE SumSeq(_)
SumSeq(t) == IF t = <<>> THEN 0 ELSE Head(t) + SumSeq(Tail(t))

\* Stand-in for embed_documents / embed_query on one text: a deterministic
\* vector of two components; a text whose characters sum to 4 embeds to the
\* zero vector.
embed(text) == Bind(SumSeq(text), LAMBDA n : <<n % 2, (n \div 2) % 2>>)

\* Stand-in for the provider of an earlier deployment, built on an embedding
\* model of another dimensionality: vectors of three components
embed_other(text) == Bind(SumSeq(text), LAMBDA n : <<n % 2, (n \div 2) % 2, 1>>)

-----------------------------------------------------------------------------
(* Vector store: vectorstore.py SimpleVectorStore *)

\* json.dump of one entry: strings, null and arrays are distinct JSON values
json_dump_entry(e) ==
    [page_content |-> <<"string", e.page_content>>,
     metadata |-> [k \in DOMAIN e.metadata |->
                     IF e.metadata[k] = NoneVal THEN <<"null", <<>>>>
                     ELSE <<"string", e.metadata[k]>>],
     embedding |-> <<"array", e.embedding>>]

\* json.load of one entry
json_load_entry(j) ==
    [page_content |-> j.page_content[2],
     metadata |-> [k \in DOMAIN j.metadata |->
                     IF j.metadata[k][1] = "null" THEN NoneVal
                     ELSE j.metadata[k][2]],
     embedding |-> j.embedding[2]]

NoFile == [state |-> "absent", body |-> <<>>]
CorruptFile == [state |-> "corrupt", body |-> <<>>]

\* _load: the entries of the file; [] when the file is missing or unreadable
_load(f) ==
    IF f.state = "ok" THEN [i \in 1..Len(f.body) |-> json_load_entry(f.body[i])]
    ELSE <<>>

\* Faulty variant of _save: returns without writing
_save_unwritten(d, f, outcome) == [raised |-> "", file |-> f]

\* _save: rewrites the whole file. `outcome`: "ok"; "open_fails" (open raises,
\* the file is untouched); "write_fails" (the file was truncated by open and
\* the dump did not complete). Returns [raised, file].
_save(d, f, outcome) ==
    IF outcome = "open_fails" THEN [raised |-> "OSError", file |-> f]
    ELSE IF outcome = "write_fails" THEN [raised |-> "OSError", file |-> CorruptFile]
    ELSE [raised |-> "",
          file |-> [state |-> "ok",
                    body |-> [i \in 1..Len(d) |-> json_dump_entry(d[i])]]]

NoFilter == <<>>

\* Faulty variant of the filter of delete: only the first match is removed
RECURSIVE keep_unmatched_first(_, _, _)
keep_unmatched_first(d, key, val) ==
    IF d = <<>> THEN <<>>
    ELSE IF DictGet(Head(d).metadata, key) # val
         THEN <<Head(d)>> \o keep_unmatched_first(Tail(d), key, val)
         ELSE Tail(d)

\* [d for d in self._data if d.get("metadata", {}).get(key) != val]
RECURSIVE keep_unmatched(_, _, _)
keep_unmatched(d, key, val) ==
    IF d = <<>> THEN <<>>
    ELSE IF DictGet(Head(d).metadata, key) # val
         THEN <<Head(d)>> \o keep_unmatched(Tail(d), key, val)
         ELSE keep_unmatched(Tail(d), key, val)

\* delete(filter=filtro): filtro is NoFilter or <<key, val>>. The filtered
\* list is assigned before the save, so it stays when the save raises.
\* Returns [raised, data, file, before, after].
delete(d, f, filtro, outcome) ==
    IF filtro = NoFilter
    THEN [raised |-> "", data |-> d, file |-> f, before |-> Len(d), after |-> Len(d)]
    ELSE
    Bind(keep_unmatched(d, filtro[1], filtro[2]), LAMBDA kept :
      Bind(_save(kept, f, outcome), LAMBDA sv :
        [raised |-> sv.raised, data |-> kept, file |-> sv.file,
         before |-> Len(d), after |-> Len(kept)]))

\* the entries add_documents appends: text, metadata and embedding of each
new_entries(documents) ==
    [i \in 1..Len(documents) |->
       [page_content |-> documents[i].page_content,
        metadata |-> documents[i].metadata,
        embedding |-> embed(documents[i].page_content)]]

\* Faulty variant of add_documents: the new entries go before the old ones
add_documents_prepend(d, f, documents, emb, outcome) ==
    IF documents = <<>>
    THEN [raised |-> "", data |-> d, file |-> f, ids |-> <<>>]
    ELSE IF emb # "ok"
    THEN [raised |-> "Exception", data |-> d, file |-> f, ids |-> <<>>]
    ELSE
    Bind(new_entries(documents) \o d, LAMBDA all :
      Bind(_save(all, f, outcome), LAMBDA sv :
        [raised |-> sv.raised, data |-> all, file |-> sv.file,
         ids |-> IF sv.raised # "" THEN <<>>
                 ELSE [i \in 1..Len(documents) |->
                         IF "doc_id" \in DOMAIN documents[i].metadata
                         THEN documents[i].metadata["doc_id"]
                         ELSE <<"unknown">>]]))

\* add_documents(documents): embeds, appends one entry per document, saves.
\* `emb` is the embedding call's outcome ("ok" or "embed_raise"), `outcome`
\* the save's. Returns [raised, data, file, ids].
add_documents(d, f, documents, emb, outcome) ==
    IF documents = <<>>
    THEN [raised |-> "", data |-> d, file |-> f, ids |-> <<>>]
    ELSE IF emb # "ok"
    THEN [raised |-> "Exception", data |-> d, file |-> f, ids |-> <<>>]
    ELSE
    Bind(d \o new_entries(documents), LAMBDA all :
      Bind(_save(all, f, outcome), LAMBDA sv :
        [raised |-> sv.raised, data |-> all, file |-> sv.file,
         ids |-> IF sv.raised # "" THEN <<>>
                 ELSE [i \in 1..Len(documents) |->
                         IF "doc_id" \in DOMAIN documents[i].metadata
                         THEN documents[i].metadata["doc_id"]
                         ELSE <<"unknown">>]]))

\* _cosine_similarity(a, b), exactly: the pair <<n, m>> stands for the
\* number sign(n) * sqrt(|n| / m), so <<0, 1>> is 0.0 and <<1, 1>> is 1.0.
\* sum(x * y for x, y in zip(a, b)): zip stops at the shorter vector
Dot(a, b) == SumSeq([i \in 1..Min(Len(a), Len(b)) |-> a[i] * b[i]])

\* Faulty variant of _cosine_similarity: the dot product is not divided by
\* the norms
_cosine_similarity_dot(a, b) ==
    Bind(<<Dot(a, b), Dot(a, a), Dot(b, b)>>, LAMBDA n :
      IF n[2] = 0 \/ n[3] = 0 THEN <<0, 1>>
      ELSE <<(IF n[1] < 0 THEN -1 ELSE 1) * n[1] * n[1], 1>>)

_cosine_similarity(a, b) ==
    Bind(<<Dot(a, b), Dot(a, a), Dot(b, b)>>, LAMBDA n :
      IF n[2] = 0 \/ n[3] = 0 THEN <<0, 1>>
      ELSE <<(IF n[1] < 0 THEN -1 ELSE 1) * n[1] * n[1], n[2] * n[3]>>)

\* the vectors the providers of the model produce, and _cosine_similarity on
\* them, computed once
EmbedVectors == {<<x, y>> : x, y \in 0..1} \cup {<<x, y, 1>> : x, y \in 0..1}

cosine_table == [a \in EmbedVectors, b \in EmbedVectors |-> _cosine_similarity(a, b)]

cosine(a, b) == cosine_table[a, b]

\* s1 < s2 and s1 = s2 on similarity values
ScoreLt(s1, s2) == s1[1] * s2[2] < s2[1] * s1[2]
ScoreEq(s1, s2) == s1[1] * s2[2] = s2[1] * s1[2]

\* Faulty variant of insert_sorted: x goes before the elements of its own score
RECURSIVE insert_sorted_unstable(_, _)
insert_sorted_unstable(sorted, x) ==
    IF sorted = <<>> THEN <<x>>
    ELSE IF ~ScoreLt(x[2], Head(sorted)[2]) THEN <<x>> \o sorted
    ELSE <<Head(sorted)>> \o insert_sorted_unstable(Tail(sorted), x)

\* the place of x in a list sorted by descending score: behind every element
\* whose score is not smaller than its own (the sort is stable)
RECURSIVE insert_sorted(_, _)
insert_sorted(sorted, x) ==
    IF sorted = <<>> THEN <<x>>
    ELSE IF ScoreLt(Head(sorted)[2], x[2]) THEN <<x>> \o sorted
    ELSE <<Head(sorted)>> \o insert_sorted(Tail(sorted), x)

\* scored.sort(key=score, reverse=True) of the first n elements of scored
RECURSIVE sort_desc(_, _)
sort_desc(scored, n) ==
    IF n = 0 THEN <<>>
    ELSE Bind(sort_desc(scored, n - 1), LAMBDA acc : insert_sorted(acc, scored[n]))

\* s[:k] of a Python list
slice_to(s, k) ==
    IF k >= 0 THEN Slice(s, 1, Min(k, Len(s)))
    ELSE Slice(s, 1, IF Len(s) + k > 0 THEN Len(s) + k ELSE 0)

\* similarity_search_with_score(query, k): [(Document, score)], best first
similarity_search_with_score(d, query, k) ==
    IF d = <<>> THEN <<>>
    ELSE
    Bind(embed(query), LAMBDA q_vec :
      Bind([i \in 1..Len(d) |->
              <<[page_content |-> d[i].page_content, metadata |-> d[i].metadata],
                cosine(q_vec, d[i].embedding)>>],
        LAMBDA scored :
          Bind(sort_desc(scored, Len(scored)), LAMBDA sorted : slice_to(sorted, k))))

-----------------------------------------------------------------------------
(* Answer generation: generator.py RAGGenerator *)

\* "\n\n---\n\n", the separator between the texts of a context
CTX_SEP == <<LF, LF, 45, 45, 45, LF, LF>>

\* text[:180], the length of a snippet of the fallback answer
SNIPPET_LEN == 180

\* sep.join(texts)
RECURSIVE join_text(_, _)
join_text(texts, sep) ==
    IF texts = <<>> THEN <<>>
    ELSE IF Len(texts) = 1 THEN texts[1]
    ELSE texts[1] \o sep \o join_text(Tail(texts), sep)

\* index where the first sep of s[i..] starts, 0 when there is none
RECURSIVE find_sub(_, _, _)
find_sub(s, sep, i) ==
    IF i + Len(sep) - 1 > Len(s) THEN 0
    ELSE IF Slice(s, i, i + Len(sep) - 1) = sep THEN i
    ELSE find_sub(s, sep, i + 1)

\* s.split(sep)
RECURSIVE split_text_on(_, _)
split_text_on(s, sep) ==
    Bind(find_sub(s, sep, 1), LAMBDA n :
      IF n = 0 THEN <<s>>
      ELSE <<Slice(s, 1, n - 1)>>
           \o split_text_on(Slice(s, n + Len(sep), Len(s)), sep))

\* list(dict.fromkeys(sources)): the first occurrence of each value, in order
RECURSIVE dict_fromkeys(_, _)
dict_fromkeys(sources, seen) ==
    IF sources = <<>> THEN <<>>
    ELSE IF Head(sources) \in seen THEN dict_fromkeys(Tail(sources), seen)
    ELSE <<Head(sources)>> \o dict_fromkeys(Tail(sources), seen \cup {Head(sources)})

\* Faulty variant of _build_context: the hits are not filtered by score
_build_context_unfiltered(hits, min_score) ==
    [context |-> join_text([i \in 1..Len(hits) |-> hits[i][1].page_content], CTX_SEP),
     sources |-> dict_fromkeys([i \in 1..Len(hits) |->
                                 IF "source_path" \in DOMAIN hits[i][1].metadata
                                 THEN hits[i][1].metadata["source_path"]
                                 ELSE <<"desconhecido">>], {})]

\* _build_context(hits, min_score): the texts of the hits whose score is not
\* below min_score, joined, and their source_path values without repetition.
\* Returns [context, sources].
_build_context(hits, min_score) ==
    LET Kept(h) == ~ScoreLt(h[2], min_score)
    IN Bind(SelectSeq(hits, Kept), LAMBDA kept :
         [context |-> join_text([i \in 1..Len(kept) |-> kept[i][1].page_content], CTX_SEP),
          sources |-> dict_fromkeys([i \in 1..Len(kept) |->
                                      IF "source_path" \in DOMAIN kept[i][1].metadata
                                      THEN kept[i][1].metadata["source_path"]
                                      ELSE <<"desconhecido">>], {})])

\* chunk.strip().replace("\n", " ")
snippet_text(chunk) ==
    Bind(strip(chunk), LAMBDA t : [i \in 1..Len(t) |-> IF t[i] = LF THEN SP ELSE t[i]])

\* the loop of _fallback_answer: the first two texts that are not blank, cut
\* to SNIPPET_LEN characters
RECURSIVE snippets_of(_, _)
snippets_of(chunks, found) ==
    IF chunks = <<>> \/ found >= 2 THEN <<>>
    ELSE Bind(snippet_text(Head(chunks)), LAMBDA text :
           IF text = <<>> THEN snippets_of(Tail(chunks), found)
           ELSE <<Slice(text, 1, Min(SNIPPET_LEN, Len(text)))>>
                \o snippets_of(Tail(chunks), found + 1))

\* _fallback_answer(context): the answer as the list of its lines ("\n".join);
\* a numbered line is <<i, snippet>> for f"{i}. {snippet}..."
_fallback_answer(context) ==
    Bind(snippets_of(split_text_on(context, CTX_SEP), 0), LAMBDA snippets :
      IF snippets = <<>>
      THEN <<"Contexto encontrado, mas o LLM esta indisponivel.">>
      ELSE <<"Contexto encontrado, mas o LLM esta indisponivel. Resumo do contexto:">>
           \o [i \in 1..Len(snippets) |-> <<i, snippets[i]>>])

\* generate(query, k, min_score) on the store d. `emb` is the outcome of
\* embed_query ("ok" or "embed_raise"; the empty store returns before it),
\* `llm` that of the language model: "no_key" (_get_llm raises),
\* "invoke_raise" (the chain raises) or "ok". Every exception is caught, so
\* the call always returns the result dict; hits is what _retrieve returned.
generate(d, query, k, min_score, emb, llm) ==
    IF d # <<>> /\ emb # "ok"
    THEN [question |-> query, answer |-> <<"Erro ao processar a pergunta.">>,
          context |-> <<>>, sources |-> <<>>, status |-> "error",
          retrieved |-> FALSE, hits |-> <<>>]
    ELSE
    Bind(similarity_search_with_score(d, query, k), LAMBDA hits :
      Bind(_build_context(hits, min_score), LAMBDA c :
        IF strip(c.context) = <<>>
        THEN [question |-> query,
              answer |-> <<"Nao encontrei informacao suficiente nos manuais para responder.">>,
              context |-> <<>>, sources |-> <<>>, status |-> "no_context",
              retrieved |-> TRUE, hits |-> hits]
        ELSE [question |-> query,
              answer |-> IF llm = "ok" THEN <<"resp.content">>
                         ELSE _fallback_answer(c.context),
              context |-> c.context, sources |-> c.sources, status |-> "success",
              retrieved |-> TRUE, hits |-> hits]))

-----------------------------------------------------------------------------
(* Environment outcomes of one record's trip through the pipeline *)

\* x: the extraction/chunking ("ok", "extract_fail", "chunk_raise");
\* del: the save inside delete; emb: the embedding call; add: the save inside
\* add_documents
AllEnvs == [x : {"ok", "extract_fail", "chunk_raise"},
            del : {"ok", "open_fails", "write_fails"},
            emb : {"ok", "embed_raise"},
            add : {"ok", "open_fails", "write_fails"}]

FaultCount(e) ==
    (IF e.x = "ok" THEN 0 ELSE 1) + (IF e.del = "ok" THEN 0 ELSE 1)
    + (IF e.emb = "ok" THEN 0 ELSE 1) + (IF e.add = "ok" THEN 0 ELSE 1)

\* the plans for n records that inject at most `budget` failures
RECURSIVE Plans(_, _)
Plans(n, budget) ==
    IF n = 0 THEN {<<>>}
    ELSE UNION {{<<e>> \o p : p \in Plans(n - 1, budget - FaultCount(e))} :
                e \in {e \in AllEnvs : FaultCount(e) <= budget}}

RECURSIVE PlanFaults(_)
PlanFaults(plan) ==
    IF plan = <<>> THEN 0 ELSE FaultCount(Head(plan)) + PlanFaults(Tail(plan))

-----------------------------------------------------------------------------
(* Ingestion orchestrator: ingest.py *)

\* Faulty variant of reindex_document_chunks: the delete step is missing
reindex_without_delete(d, f, doc_id, chunks, env) ==
    IF chunks = <<>>
    THEN [raised |-> "", ret |-> 0, data |-> d, file |-> f,
          del_raised |-> "", added |-> FALSE]
    ELSE
    Bind(add_documents(d, f, chunks, env.emb, env.add), LAMBDA add :
      [raised |-> add.raised,
       ret |-> IF add.raised = "" THEN Len(chunks) ELSE 0,
       data |-> add.data, file |-> add.file,
       del_raised |-> "", added |-> TRUE])

\* Faulty variant of reindex_document_chunks: the empty chunk list returns
\* before the delete step
reindex_empty_first(d, f, doc_id, chunks, env) ==
    IF chunks = <<>>
    THEN [raised |-> "", ret |-> 0, data |-> d, file |-> f,
          del_raised |-> "", added |-> FALSE]
    ELSE
    Bind(delete(d, f, <<"doc_id", doc_id>>, env.del), LAMBDA del :
      Bind(add_documents(del.data, del.file, chunks, env.emb, env.add), LAMBDA add :
        [raised |-> add.raised,
         ret |-> IF add.raised = "" THEN Len(chunks) ELSE 0,
         data |-> add.data, file |-> add.file,
         del_raised |-> del.raised, added |-> TRUE]))

\* reindex_document_chunks(doc_id, chunks) on the store <<d, f>>: the delete
\* is wrapped in try/except (its failure is printed and dropped), the add is
\* not. Returns [raised, ret, data, file, del_raised, added].
reindex_document_chunks(d, f, doc_id, chunks, env) ==
    Bind(delete(d, f, <<"doc_id", doc_id>>, env.del), LAMBDA del :
      IF chunks = <<>>
      THEN [raised |-> "", ret |-> 0, data |-> del.data, file |-> del.file,
            del_raised |-> del.raised, added |-> FALSE]
      ELSE
      Bind(add_documents(del.data, del.file, chunks, env.emb, env.add), LAMBDA add :
        [raised |-> add.raised,
         ret |-> IF add.raised = "" THEN Len(chunks) ELSE 0,
         data |-> add.data, file |-> add.file,
         del_raised |-> del.raised, added |-> TRUE]))

\* the for loop of main_index_test over validos, from record i on, `st` being
\* the state so far [raised, data, file, total_chunks, done, failed_at,
\* store_ok, ...]; an exception of build_chunks_for_record or of
\* reindex_document_chunks leaves the loop and the function.
RECURSIVE index_loop(_, _, _, _, _)
index_loop(validos, plan, fsNow, i, st) ==
    IF i > Len(validos) THEN st
    ELSE
    Bind(build_chunks_for_record(validos[i], CHUNK_SIZE, CHUNK_OVERLAP, fsNow, plan[i].x),
      LAMBDA c :
        IF c.raised # ""
        THEN [st EXCEPT !.raised = c.raised, !.failed_at = i]
        ELSE
        Bind(reindex_document_chunks(st.data, st.file, validos[i].doc_id,
                                     c.chunks, plan[i]),
          LAMBDA r :
            IF r.raised # ""
            THEN [st EXCEPT !.raised = r.raised, !.failed_at = i,
                            !.data = r.data, !.file = r.file, !.store_ok = FALSE]
            ELSE Bind([st EXCEPT !.data = r.data, !.file = r.file,
                                 !.total_chunks = st.total_chunks + r.ret,
                                 !.done = i,
                                 !.store_ok = st.store_ok /\ r.del_raised = ""],
                      LAMBDA st2 : index_loop(validos, plan, fsNow, i + 1, st2))))

\* main_index_test after the discovery call: the record builder, then the
\* loop. `base` is the discovery's result. Returns the loop's final state,
\* with the builder's outcome (built, records).
index_discovered(base, plan, fsNow, d, f) ==
    Bind(build_document_records(RAW_DATA_DIR, base, fsNow), LAMBDA b :
      IF b.raised # ""
      THEN [raised |-> b.raised, data |-> d, file |-> f, total_chunks |-> 0,
            done |-> 0, failed_at |-> 0, store_ok |-> TRUE,
            built |-> FALSE, records |-> <<>>]
      ELSE Bind([raised |-> "", data |-> d, file |-> f, total_chunks |-> 0,
                 done |-> 0, failed_at |-> 0, store_ok |-> TRUE,
                 built |-> TRUE, records |-> b.val],
                LAMBDA st : index_loop(b.val, plan, fsNow, 1, st)))

\* discover_files(root_dir): [] for a missing root; for an existing root the
\* for statement calls the undefined name ilter_files.
\* Returns [raised, results].
discover_files(root_dir, root_exists) ==
    IF ~root_exists THEN [raised |-> "", results |-> <<>>]
    ELSE [raised |-> "NameError", results |-> <<>>]

\* ingest.ingest_file(path, root=root): module src.ingestion.ingest defines
\* reindex_document_chunks (twice), main_index_test and
\* main_discovery_records_and_chunks and no ingest_file, so the attribute
\* lookup raises before any step of the pipeline runs (`from
\* src.ingestion.ingest import ingest_file` in api/main.py raises ImportError).
\* Returns [raised, ret, reindex_calls].
ingest_file(path, root) ==
    [raised |-> "AttributeError", ret |-> NoneVal, reindex_calls |-> 0]

-----------------------------------------------------------------------------
(* The files, contents and documents the model draws its inputs from *)

C_A == <<1, 2>>      \* two chunks
C_B == <<3>>         \* one chunk
C_E == <<SP>>        \* blank: no chunk

FsPaths == {P_a, P_b}
Contents == {C_A, C_B, C_E}

\* os.path.splitext(path)[1] of the model's paths, computed once
extension_table == [p \in KnownPaths |-> splitext(p)[2]]

\* the DiscoveredFile of a path, as discover_files builds it
discovered_item(path, fsNow) ==
    [source_path |-> path,
     extension |-> extension_table[path],
     size_bytes |-> IF path \in DOMAIN fsNow /\ fsNow[path] # Absent
                    THEN Len(fsNow[path]) ELSE 0,
     modified_at |-> 0]

\* sequences without repetition of at most n elements of S
RECURSIVE SeqsUpTo(_, _)
SeqsUpTo(S, n) ==
    IF n = 0 THEN {<<>>}
    ELSE {<<>>} \cup UNION {{<<x>> \o t : t \in SeqsUpTo(S \ {x}, n - 1)} : x \in S}

\* the record and the chunks of a file with bytes c at path
RecordOf(path, c) ==
    build_document_records(RAW_DATA_DIR,
        <<discovered_item(path, (path :> c))>>, (path :> c)).val[1]

ChunksOf(path, c) ==
    build_chunks_for_record(RecordOf(path, c), CHUNK_SIZE, CHUNK_OVERLAP,
                            (path :> c), "ok").chunks

\* the document of each file: its doc_id and its chunk list
DocTable ==
    [path \in FsPaths, c \in Contents |-> <<RecordOf(path, c).doc_id, ChunksOf(path, c)>>]

DocInputs == {DocTable[path, c] : path \in FsPaths, c \in Contents}

PlansTable == [n \in 0..MaxBatch, b \in 0..MaxFaults |-> Plans(n, b)]

\* number of entries of d whose metadata field key is val
RECURSIVE CountKey(_, _, _)
CountKey(d, key, val) ==
    IF d = <<>> THEN 0
    ELSE (IF DictGet(Head(d).metadata, key) = val THEN 1 ELSE 0)
         + CountKey(Tail(d), key, val)

NoThreads == <<>>

-----------------------------------------------------------------------------
(* Specification Spec: the ingestion pipeline on the process-wide store *)

Init ==
    /\ fs \in [FsPaths -> {C_A, C_B}]
    /\ file = NoFile
    /\ data = _load(file)
    /\ clean = TRUE
    /\ faults = 0
    /\ last = [op |-> "init"]
    /\ th = NoThreads

\* the environment rewrites a file of the raw directory
EditFile(path, c) ==
    /\ fs[path] # c
    /\ fs' = [fs EXCEPT ![path] = c]
    /\ last' = [op |-> "edit", path |-> path]
    /\ UNCHANGED <<data, file, clean, faults, th>>

\* main_index_test from its second statement on, given the discovery result
IndexDiscovered(base, plan) ==
    \E r \in {index_discovered(base, plan, fs, data, file)} :
       /\ data' = r.data
       /\ file' = r.file
       /\ clean' = (clean /\ r.store_ok)
       /\ faults' = faults + PlanFaults(plan)
       /\ last' = [op |-> "index", plan |-> plan,
                   raised |-> r.raised, built |-> r.built, records |-> r.records,
                   done |-> r.done, failed_at |-> r.failed_at,
                   total_chunks |-> r.total_chunks]
       /\ UNCHANGED <<fs, th>>

\* main_index_test: RAW_DATA_DIR exists (config.py creates it on import)
MainIndexTest(plan) ==
    \E disc \in {discover_files(RAW_DATA_DIR, TRUE)} :
       IF disc.raised # ""
       THEN /\ last' = [op |-> "main_index_test", raised |-> disc.raised]
            /\ UNCHANGED <<fs, data, file, clean, faults, th>>
       ELSE IndexDiscovered(disc.results, plan)

\* reindex_document_chunks(doc_id, chunks) called with the doc_id and the
\* chunks of a file of the raw directory
Reindex(doc_id, chunks, env) ==
    \E r \in {reindex_document_chunks(data, file, doc_id, chunks, env)} :
       /\ data' = r.data
       /\ file' = r.file
       /\ clean' = (clean /\ r.del_raised = "" /\ r.raised = "")
       /\ faults' = faults + FaultCount(env)
       /\ last' = [op |-> "reindex", doc_id |-> doc_id, chunks |-> chunks,
                   env |-> env, raised |-> r.raised, ret |-> r.ret,
                   del_raised |-> r.del_raised, added |-> r.added,
                   n_before |-> CountKey(data, "doc_id", doc_id),
                   again |-> /\ last.op = "reindex"
                             /\ last.raised = ""
                             /\ last.doc_id = doc_id
                             /\ last.chunks = chunks]
       /\ UNCHANGED <<fs, th>>

Bases == SeqsUpTo({P_a, P_b, P_x}, MaxBatch)

ValidCount(base) ==
    Bind(build_document_records(RAW_DATA_DIR, base, fs), LAMBDA b :
      IF b.raised # "" THEN 0 ELSE Len(b.val))

Next ==
    \/ \E path \in FsPaths, c \in Contents : EditFile(path, c)
    \/ \E paths \in Bases :
         \E base \in {[i \in 1..Len(paths) |-> discovered_item(paths[i], fs)]} :
            \E plan \in PlansTable[ValidCount(base), MaxFaults - faults] :
               IndexDiscovered(base, plan)
    \/ MainIndexTest(<<>>)
    \/ \E path \in FsPaths :
         \E env \in {e \in AllEnvs : e.x = "ok" /\ FaultCount(e) <= MaxFaults - faults} :
           Reindex(DocTable[path, fs[path]][1], DocTable[path, fs[path]][2], env)

Spec == Init /\ [][Next]_vars

-----------------------------------------------------------------------------
(* Specification SpecStore: direct calls on one SimpleVectorStore instance *)

\* a document whose metadata carries no doc_id
D_plain == [page_content |-> <<3>>, metadata |-> [source |-> <<"m">>]]

AddInputs ==
    {ChunksOf(P_a, C_A), ChunksOf(P_b, C_B), ChunksOf(P_b, C_A), <<D_plain>>, <<>>}

Filters ==
    {NoFilter, <<"source_path", P_a>>}
    \cup {<<"doc_id", RecordOf(P_a, c).doc_id>> : c \in Contents}

\* query texts: the last one embeds to the zero vector
Queries == {<<1>>, <<3>>, <<4>>}

SaveOutcomes == {"ok", "open_fails", "write_fails"}

InitStore ==
    /\ fs = [p \in FsPaths |-> C_A]
    /\ file = NoFile
    /\ data = _load(file)
    /\ clean = TRUE
    /\ faults = 0
    /\ last = [op |-> "init"]
    /\ th = NoThreads

\* add_documents(documents) on the instance
StoreAdd(documents, emb, outcome) ==
    /\ Len(data) + Len(documents) <= MaxEntries
    /\ \E r \in {add_documents(data, file, documents, emb, outcome)} :
         /\ data' = r.data
         /\ file' = r.file
         /\ clean' = (clean /\ r.raised = "")
         /\ faults' = faults + (IF emb = "ok" /\ outcome = "ok" THEN 0 ELSE 1)
         /\ last' = [op |-> "add", documents |-> documents, raised |-> r.raised,
                     ids |-> r.ids, ret |-> [type |-> "list", items |-> r.ids]]
    /\ UNCHANGED <<fs, th>>

\* delete(filter=filtro) on the instance
StoreDelete(filtro, outcome) ==
    /\ \E r \in {delete(data, file, filtro, outcome)} :
         /\ data' = r.data
         /\ file' = r.file
         /\ clean' = (clean /\ r.raised = "")
         /\ faults' = faults + (IF outcome = "ok" THEN 0 ELSE 1)
         /\ last' = [op |-> "delete",
                     key |-> IF filtro = NoFilter THEN "" ELSE filtro[1],
                     val |-> IF filtro = NoFilter THEN NoneVal ELSE filtro[2],
                     raised |-> r.raised, before |-> r.before, after |-> r.after]
    /\ UNCHANGED <<fs, th>>

\* similarity_search_with_score(query, k) on the instance
StoreSearch(query, k) ==
    /\ last' = [op |-> "search", query |-> query, k |-> k,
                result |-> similarity_search_with_score(data, query, k),
                after_add |-> /\ last.op = "add"
                              /\ last.raised = ""
                              /\ Len(last.documents) = 1
                              /\ last.documents[1].page_content = query]
    /\ UNCHANGED <<fs, data, file, clean, faults, th>>

\* the process restarts: a fresh instance is constructed on the same
\* directory (__init__ calls _load)
Restart ==
    /\ data' = _load(file)
    /\ clean' = TRUE
    /\ last' = [op |-> "restart", n_before |-> Len(data)]
    /\ UNCHANGED <<fs, file, faults, th>>

\* the entries an earlier deployment, with its own provider, left in the file
other_entries(documents) ==
    [i \in 1..Len(documents) |->
       [page_content |-> documents[i].page_content,
        metadata |-> documents[i].metadata,
        embedding |-> embed_other(documents[i].page_content)]]

\* a store instance constructed on a directory whose documents.json was
\* written under the other provider
InitProvider ==
    /\ fs = [p \in FsPaths |-> C_A]
    /\ \E documents \in {ChunksOf(P_b, C_B), ChunksOf(P_a, C_A)} :
         file = _save(other_entries(documents), NoFile, "ok").file
    /\ data = _load(file)
    /\ clean = TRUE
    /\ faults = 0
    /\ last = [op |-> "init"]
    /\ th = NoThreads

NextStore ==
    \/ \E documents \in AddInputs :
         \E emb \in {"ok", "embed_raise"}, outcome \in SaveOutcomes :
            /\ (IF emb = "ok" THEN 0 ELSE 1) + (IF outcome = "ok" THEN 0 ELSE 1)
                 <= Min(1, MaxFaults - faults)
            /\ (documents = <<>> => emb = "ok" /\ outcome = "ok")
            /\ StoreAdd(documents, emb, outcome)
    \/ \E filtro \in Filters, outcome \in SaveOutcomes :
         /\ (outcome # "ok" => faults < MaxFaults /\ filtro # NoFilter)
         /\ StoreDelete(filtro, outcome)
    \/ \E query \in Queries, k \in 0..MaxK : StoreSearch(query, k)
    \/ Restart

SpecStore == InitStore /\ [][NextStore]_vars

SpecProvider == InitProvider /\ [][NextStore]_vars

-----------------------------------------------------------------------------
(* Specification SpecRag: questions answered from a store that holds the    *)
(* chunks the ingestion put there                                           *)

\* the chunk lists of the ingested files
RagInputs == {ChunksOf(P_a, C_A), ChunksOf(P_b, C_B), ChunksOf(P_b, C_A)}

\* min_score of a request: 0.0 (the default), 0.5, 0.8 and 1.5, written as
\* the scores are
MinScores == {<<0, 1>>, <<1, 4>>, <<16, 25>>, <<9, 4>>}

\* generate(query, k, min_score) on the process-wide store
Generate(query, k, min_score, emb, llm) ==
    /\ \E r \in {generate(data, query, k, min_score, emb, llm)} :
         last' = [op |-> "generate", k |-> k, min_score |-> min_score,
                  llm |-> llm, raised |-> "", result |-> r]
    /\ UNCHANGED <<fs, data, file, clean, faults, th>>

NextRag ==
    \/ \E documents \in RagInputs : StoreAdd(documents, "ok", "ok")
    \/ \E query \in Queries, k \in 0..MaxK, min_score \in MinScores :
         \E emb \in {"ok", "embed_raise"}, llm \in {"no_key", "invoke_raise", "ok"} :
            /\ (emb # "ok" => data # <<>>)
            /\ Generate(query, k, min_score, emb, llm)

SpecRag == InitStore /\ [][NextRag]_vars

-----------------------------------------------------------------------------
(* Specification SpecReindex: reindex_document_chunks called for the        *)
(* records of the raw directory, the extraction yielding chunks or nothing  *)

\* a record's doc_id with the chunk list build_chunks_for_record returns
\* for it: the chunks of its text, or [] when no document was extracted
ReindexInputs == DocInputs \cup {<<di[1], <<>>>> : di \in DocInputs}

NextReindex ==
    \E di \in ReindexInputs :
       \E env \in {e \in AllEnvs : e.x = "ok" /\ FaultCount(e) <= MaxFaults - faults} :
          /\ (di[2] = <<>> => env.emb = "ok" /\ env.add = "ok")
          /\ Reindex(di[1], di[2], env)

SpecReindex == InitStore /\ [][NextReindex]_vars

-----------------------------------------------------------------------------
(* Specification SpecBuilder: direct calls of the loaders (parser, discovery, *)
(* record builder) and of single-file ingestion                              *)

\* paths inside and outside the grammar
BuilderPaths == KnownPaths

InitBuilder ==
    /\ fs \in [FsPaths -> {C_A, Absent}]
    /\ file = NoFile
    /\ data = <<>>
    /\ clean = TRUE
    /\ faults = 0
    /\ last = [op |-> "init"]
    /\ th = NoThreads

\* build_document_records(RAW_DATA_DIR, discovered)
Build(discovered) ==
    /\ \E b \in {build_document_records(RAW_DATA_DIR, discovered, fs)} :
         last' = [op |-> "build", discovered |-> discovered,
                  raised |-> b.raised, val |-> b.val, ign |-> b.ign]
    /\ UNCHANGED <<fs, data, file, clean, faults, th>>

\* parse_path_metadata(source_path, RAW_DATA_DIR) called on its own
Parse(source_path) ==
    /\ \E p \in {parsed(source_path, RAW_DATA_DIR)} :
         last' = [op |-> "parse", source_path |-> source_path,
                  raised |-> p.raised, meta |-> p.meta, err |-> p.err]
    /\ UNCHANGED <<fs, data, file, clean, faults, th>>

\* discover_files(RAW_DATA_DIR) on the existing raw directory
Discover ==
    /\ \E r \in {discover_files(RAW_DATA_DIR, TRUE)} :
         last' = [op |-> "discover", raised |-> r.raised, results |-> r.results]
    /\ UNCHANGED <<fs, data, file, clean, faults, th>>

\* ingest_file(path, root=RAW_DATA_DIR), as the upload handler and the
\* repository's test call it
IngestFile(path) ==
    /\ \E r \in {ingest_file(path, RAW_DATA_DIR)} :
         last' = [op |-> "ingest_file", source_path |-> path, raised |-> r.raised,
                  ret |-> r.ret, reindex_calls |-> r.reindex_calls]
    /\ UNCHANGED <<fs, data, file, clean, faults, th>>

NextBuilder ==
    \/ \E path \in BuilderPaths : Parse(path)
    \/ Discover
    \/ \E path \in BuilderPaths : IngestFile(path)
    \/ \E paths \in SeqsUpTo(BuilderPaths, MaxBatch) :
         Build([i \in 1..Len(paths) |-> discovered_item(paths[i], fs)])

SpecBuilder == InitBuilder /\ [][NextBuilder]_vars

-----------------------------------------------------------------------------
(* Specification SpecConc: two threads run reindex_document_chunks on the  *)
(* instance get_vectorstore() returns; neither the store nor its callers   *)
(* take a lock, so a thread may be preempted between any two statements.   *)

Threads == {1, 2}

ConcDocs == {doc \in DocInputs : doc[2] # <<>>}

Idle == [pc |-> "idle", doc_id |-> NoneVal, chunks |-> <<>>, kept |-> <<>>]

InitConc ==
    /\ fs = [p \in FsPaths |-> C_A]
    /\ data \in {<<>>, new_entries(ChunksOf(P_a, C_B))}
    /\ file = _save(data, NoFile, "ok").file
    /\ clean = TRUE
    /\ faults = 0
    /\ last = [op |-> "init"]
    /\ th = [t \in Threads |-> Idle]

\* thread t enters reindex_document_chunks(doc_id, chunks)
T_Call(t, doc) ==
    /\ th[t].pc = "idle"
    /\ th' = [th EXCEPT ![t] = [pc |-> "delete_filter", doc_id |-> doc[1],
                                chunks |-> doc[2], kept |-> <<>>]]
    /\ UNCHANGED <<fs, data, file, clean, faults, last>>

\* delete: the list comprehension is evaluated over self._data
T_DeleteFilter(t) ==
    /\ th[t].pc = "delete_filter"
    /\ th' = [th EXCEPT ![t].pc = "delete_assign",
                        ![t].kept = keep_unmatched(data, "doc_id", th[t].doc_id)]
    /\ UNCHANGED <<fs, data, file, clean, faults, last>>

\* delete: its value is assigned to self._data
T_DeleteAssign(t) ==
    /\ th[t].pc = "delete_assign"
    /\ data' = th[t].kept
    /\ th' = [th EXCEPT ![t].pc = "delete_save"]
    /\ UNCHANGED <<fs, file, clean, faults, last>>

\* delete: self._save(); then `if not chunks: return 0`
T_DeleteSave(t) ==
    /\ th[t].pc = "delete_save"
    /\ file' = _save(data, file, "ok").file
    /\ th' = [th EXCEPT ![t].pc = IF th[t].chunks = <<>> THEN "done" ELSE "add_extend"]
    /\ UNCHANGED <<fs, data, clean, faults, last>>

\* add_documents: the embeddings are computed and the entries appended
T_AddExtend(t) ==
    /\ th[t].pc = "add_extend"
    /\ data' = data \o new_entries(th[t].chunks)
    /\ th' = [th EXCEPT ![t].pc = "add_save"]
    /\ UNCHANGED <<fs, file, clean, faults, last>>

\* add_documents: self._save(); reindex_document_chunks returns
T_AddSave(t) ==
    /\ th[t].pc = "add_save"
    /\ file' = _save(data, file, "ok").file
    /\ th' = [th EXCEPT ![t].pc = "done"]
    /\ UNCHANGED <<fs, data, clean, faults, last>>

NextConc ==
    \E t \in Threads :
       \/ \E doc \in ConcDocs : T_Call(t, doc)
       \/ T_DeleteFilter(t)
       \/ T_DeleteAssign(t)
       \/ T_DeleteSave(t)
       \/ T_AddExtend(t)
       \/ T_AddSave(t)

SpecConc == InitConc /\ [][NextConc]_vars

-----------------------------------------------------------------------------
(* Properties *)

\* the entries of d whose metadata.doc_id is X, in order
EntriesWith(d, X) ==
    LET Has(e) == DictGet(e.metadata, "doc_id") = X
    IN SelectSeq(d, Has)

\* C1 (Spec): re-ingesting a path after its bytes were edited leaves no
\* stale chunk. Stated on every batch that returned normally: each entry of
\* the store that comes from the path of a record of the batch carries that
\* record's doc_id, the digest of the file's present bytes.
C1_NoStaleChunks ==
    (last.op = "index" /\ last.raised = "") =>
       \A i \in 1..Len(last.records) : \A j \in 1..Len(data) :
          DictGet(data[j].metadata, "source_path") = last.records[i].source_path
             => DictGet(data[j].metadata, "doc_id") = last.records[i].doc_id

\* C2 (SpecStore): every step that is a delete with filter doc_id = X leaves
\* no entry with doc_id X, keeps every other entry unchanged and in the same
\* relative order, and changes nothing when no entry matches.
C2_DeleteByDocId ==
    [][(last'.op = "delete" /\ last'.key = "doc_id") =>
          LET X == last'.val
              Other(e) == DictGet(e.metadata, "doc_id") # X
          IN /\ \A i \in 1..Len(data') : DictGet(data'[i].metadata, "doc_id") # X
             /\ data' = SelectSeq(data, Other)
             /\ ((\A i \in 1..Len(data) : Other(data[i])) => data' = data)]_vars

\* a delete by doc_id removed some entries and kept others
C2_Witness ==
    /\ last.op = "delete"
    /\ last.key = "doc_id"
    /\ last.after > 0
    /\ last.before > last.after + 1

\* C3 (Spec): a reindex that returns normally right after a reindex with the
\* same doc_id and the same chunk list that returned normally leaves the
\* number of entries with that doc_id as the first run left it, which is the
\* length of the chunk list.
C3_ReindexIdempotent ==
    (last.op = "reindex" /\ last.again /\ last.raised = "") =>
       /\ CountKey(data, "doc_id", last.doc_id) = last.n_before
       /\ CountKey(data, "doc_id", last.doc_id) = Len(last.chunks)

\* a second run on a non-empty chunk list, other documents being in the store
C3_Witness ==
    /\ last.op = "reindex"
    /\ last.again
    /\ last.raised = ""
    /\ Len(last.chunks) = 2
    /\ Len(data) > Len(last.chunks)

\* the item's path breaks the grammar in a way parse_path_metadata rejects
\* (unknown category, too few segments, outside the root), or its checksum
\* cannot be computed
BadItem(item) ==
    \/ parsed(item.source_path, RAW_DATA_DIR).raised # ""
    \/ compute_checksum(item.source_path, fs).raised # ""

\* C4 (SpecBuilder): the record builder never raises for a per-item
\* problem: every call returns (valid, ignored), each offending file is in
\* ignored with a reason, and every file of the list is in one of the two.
C4_BuilderNeverRaises ==
    last.op = "build" =>
       /\ last.raised = ""
       /\ Len(last.val) + Len(last.ign) = Len(last.discovered)
       /\ \A i \in 1..Len(last.discovered) :
             BadItem(last.discovered[i]) =>
                \E j \in 1..Len(last.ign) :
                   /\ last.ign[j].source_path = last.discovered[i].source_path
                   /\ last.ign[j].reason # <<>>

\* C5 (Spec): in a batch over several valid records, a failure while
\* chunking or indexing one record does not abort the batch: the batch
\* returns normally and every record but the failing one has been chunked
\* and reindexed.
C5_BatchSurvivesFailure ==
    (last.op = "index" /\ last.built /\ Len(last.records) >= 2) =>
       /\ last.raised = ""
       /\ last.done >= Len(last.records) - (IF last.failed_at = 0 THEN 0 ELSE 1)

\* C6 (SpecConc): when two reindex operations for the same doc_id have both
\* returned, the store holds exactly one copy of the document's chunks.
C6_ExactlyOneCopy ==
    (/\ \A t \in Threads : th[t].pc = "done"
     /\ th[1].doc_id = th[2].doc_id) =>
       CountKey(data, "doc_id", th[1].doc_id) = Len(th[1].chunks)

\* C7 (Spec): when the file write fails inside the delete step or the add
\* step of a reindex, the reindex fails, and after a failed delete step it
\* does not go on to the add step.
C7_WriteFailureIsHard ==
    (/\ last.op = "reindex"
     /\ \/ last.env.del # "ok"
        \/ (last.added /\ last.env.emb = "ok" /\ last.env.add # "ok")) =>
       /\ last.raised # ""
       /\ (last.env.del # "ok" => ~last.added)

\* C8 (SpecStore): as long as every add and delete call on the instance has
\* returned normally, what the loader reads from the file is the in-memory
\* entry list, entry by entry in the same order.
C8_RoundTrip ==
    clean =>
       /\ _load(file) = data
       /\ (data # <<>> => file.state = "ok" /\ Len(file.body) = Len(data))

\* a fresh instance loaded a file of several entries written by normal calls
C8_Witness ==
    /\ last.op = "restart"
    /\ Len(data) >= 3
    /\ last.n_before = Len(data)
    /\ faults = 0

\* C9 (Spec): after a batch without injected failure over two files of
\* identical bytes, both records carry one doc_id and the entries with that
\* doc_id are exactly the chunks of the file ingested last.
C9_SameBytesOneDocument ==
    (/\ last.op = "index"
     /\ last.raised = ""
     /\ PlanFaults(last.plan) = 0
     /\ Len(last.records) = 2
     /\ fs[last.records[1].source_path] = fs[last.records[2].source_path]) =>
       /\ last.records[1].doc_id = last.records[2].doc_id
       /\ EntriesWith(data, last.records[2].doc_id)
            = new_entries(ChunksOf(last.records[2].source_path,
                                   fs[last.records[2].source_path]))
       /\ CountKey(data, "doc_id", last.records[1].doc_id)
            = Len(ChunksOf(last.records[1].source_path,
                           fs[last.records[1].source_path]))

\* such a batch over two files of two chunks each, into a store that keeps
\* entries of another document
C9_Witness ==
    /\ last.op = "index"
    /\ last.raised = ""
    /\ PlanFaults(last.plan) = 0
    /\ Len(last.records) = 2
    /\ fs[last.records[1].source_path] = fs[last.records[2].source_path]
    /\ CountKey(data, "doc_id", last.records[2].doc_id) = 2
    /\ Len(data) > 2

\* res is the first min(k, N) entries of d sorted by descending similarity
\* to query, entries of equal score in insertion order: the entry that has
\* r entries before it in that order is the result of index r + 1
SearchOK(d, query, k, res) ==
    \E score \in {[i \in 1..Len(d) |->
                     cosine(embed(query), d[i].embedding)]} :
       LET N == Len(d)
           m == Min(k, N)
           Before(i, j) == \/ ScoreLt(score[j], score[i])
                           \/ (ScoreEq(score[i], score[j]) /\ i < j)
       IN /\ Len(res) = m
          /\ \A i \in 1..N :
                \E rank \in {Cardinality({j \in 1..N : Before(j, i)})} :
                   rank < m =>
                      res[rank + 1] = <<[page_content |-> d[i].page_content,
                                         metadata |-> d[i].metadata], score[i]>>
          /\ \A r \in 1..(m - 1) : ~ScoreLt(res[r][2], res[r + 1][2])

\* C10 (SpecStore): a search step with 0 <= k returns exactly min(k, N)
\* results, the head of the store's entries stably sorted by descending
\* score, and leaves the store and its file as they were.
C10_SearchTopK ==
    [][last'.op = "search" =>
          /\ data' = data
          /\ file' = file
          /\ SearchOK(data, last'.query, last'.k, last'.result)]_vars

\* a search that cut the list and returned two distinct entries of equal score
C10_Witness ==
    /\ last.op = "search"
    /\ last.k >= 2
    /\ Len(data) > last.k
    /\ Len(last.result) = last.k
    /\ ScoreEq(last.result[1][2], last.result[2][2])
    /\ last.result[1][1] # last.result[2][1]

\* C11 as stated (SpecStore): every add step that returns normally appends
\* one entry per chunk, in input order, after the existing entries, which it
\* leaves unchanged, and returns the number of entries added; on an empty
\* input it returns 0 and changes neither the entry list nor the file.
C11_AddReturnsCount ==
    [][(last'.op = "add" /\ last'.raised = "") =>
          \E docs \in {last'.documents} :
             /\ Len(data') = Len(data) + Len(docs)
             /\ \A i \in 1..Len(data) : data'[i] = data[i]
             /\ \A i \in 1..Len(docs) :
                   /\ data'[Len(data) + i].page_content = docs[i].page_content
                   /\ data'[Len(data) + i].metadata = docs[i].metadata
             /\ (docs = <<>> => data' = data /\ file' = file)
             /\ last'.ret.type = "int"
             /\ last'.ret.items = Len(docs)]_vars

\* C11 as amended (SpecStore): every add step that returns normally appends
\* one entry per chunk, in input order, after the existing entries, which it
\* leaves unchanged, and returns the list of the doc_ids of the chunks, one
\* per chunk in input order ("unknown" for a chunk without doc_id); on an
\* empty input it returns the empty list and changes neither the entry list
\* nor the file.
C11_AddReturnsIds ==
    [][(last'.op = "add" /\ last'.raised = "") =>
          \E docs \in {last'.documents} :
             /\ Len(data') = Len(data) + Len(docs)
             /\ \A i \in 1..Len(data) : data'[i] = data[i]
             /\ \A i \in 1..Len(docs) :
                   /\ data'[Len(data) + i].page_content = docs[i].page_content
                   /\ data'[Len(data) + i].metadata = docs[i].metadata
             /\ (docs = <<>> => data' = data /\ file' = file)
             /\ last'.ret.type = "list"
             /\ Len(last'.ret.items) = Len(docs)
             /\ \A i \in 1..Len(docs) :
                   last'.ret.items[i] =
                      IF "doc_id" \in DOMAIN docs[i].metadata
                      THEN docs[i].metadata["doc_id"] ELSE <<"unknown">>]_vars

\* an add of two chunks returned normally on a store that held other entries
C11_Witness ==
    /\ last.op = "add"
    /\ last.raised = ""
    /\ Len(last.documents) = 2
    /\ Len(data) > 2
    /\ data[1].page_content # last.documents[1].page_content

\* the segments of a path of the model relative to the raw directory
rel_table == [p \in KnownPaths |-> relpath_parts(p, RAW_DATA_DIR)]

\* the stem of the final segment of the path: the file's name without extension
FinalStem(p) == splitext(rel_table[p][Len(rel_table[p])])[1]

\* the path is under the root and passes the category and segment-count checks
PassesChecks(p) ==
    /\ rel_table[p][1] # S_dotdot
    /\ Len(rel_table[p]) >= 2
    /\ rel_table[p][1] \in {S_processos, S_sistemas}
    /\ (rel_table[p][1] = S_sistemas => Len(rel_table[p]) >= 3)

\* C12 (SpecBuilder): for every path that passes the checks, at any depth,
\* whose final segment's stem contains "__", the parser returns metadata
\* whose title is the part of that stem before the first "__" and whose
\* version is the part after it.
C12_TitleFromLastSegment ==
    (/\ last.op = "parse"
     /\ PassesChecks(last.source_path)
     /\ find_sep(FinalStem(last.source_path)) # 0) =>
       \E stem \in {FinalStem(last.source_path)} :
          /\ last.raised = ""
          /\ DictGet(last.meta, "title") = Slice(stem, 1, find_sep(stem) - 1)
          /\ DictGet(last.meta, "version") = Slice(stem, find_sep(stem) + 2, Len(stem))

\* category and system of a valid result are as the path grammar says
GoodCategory(m, p) ==
    /\ m.category \in {S_processos, S_sistemas}
    /\ m.category = rel_table[p][1]
    /\ (m.category = S_sistemas => m.system = rel_table[p][2] /\ m.system # NoneVal)
    /\ (m.category = S_processos => m.system = NoneVal)

\* C13 (SpecBuilder): every metadata result the parser returns as valid and
\* every record of the builder's valid list has category processos or
\* sistemas, system equal to the second path segment (not None) under
\* sistemas, and system None under processos.
C13_CategoryAndSystem ==
    /\ (last.op = "parse" /\ last.raised = "" /\ DOMAIN last.meta # {}) =>
          GoodCategory(last.meta, last.source_path)
    /\ (last.op = "build" /\ last.raised = "") =>
          \A i \in 1..Len(last.val) : GoodCategory(last.val[i], last.val[i].source_path)

\* a build whose valid list holds a record of each category
C13_Witness ==
    /\ last.op = "build"
    /\ last.raised = ""
    /\ Len(last.val) = 2
    /\ last.val[1].category = S_sistemas
    /\ last.val[1].system = S_erp
    /\ last.val[2].category = S_processos

\* C14 (SpecBuilder): the parser raises, and returns neither metadata nor a
\* rejection, for every path outside the root, of fewer than 2 relative
\* segments, of a first segment other than processos and sistemas, or under
\* sistemas with fewer than 3 segments.
C14_BadPathRaises ==
    (last.op = "parse" /\ ~PassesChecks(last.source_path)) =>
       /\ last.raised = "ValueError"
       /\ last.meta = <<>>
       /\ last.err = <<>>

\* the parser was called on a path under sistemas with two segments
C14_Witness ==
    /\ last.op = "parse"
    /\ last.source_path = P_s
    /\ last.raised # ""

\* C15 (SpecBuilder): for every path that passes the checks and whose file
\* name's stem lacks "__", the parser returns the rejection reason
\* missing_version_separator without raising, and a builder call that
\* returns has the file in ignored with that reason.
C15_MissingSeparatorRejected ==
    /\ (/\ last.op = "parse"
        /\ PassesChecks(last.source_path)
        /\ find_sep(FinalStem(last.source_path)) = 0) =>
          /\ last.raised = ""
          /\ last.meta = <<>>
          /\ DictGet(last.err, "reason") = <<"missing_version_separator">>
    /\ (last.op = "build" /\ last.raised = "") =>
          \A i \in 1..Len(last.discovered) :
             (/\ PassesChecks(last.discovered[i].source_path)
              /\ find_sep(FinalStem(last.discovered[i].source_path)) = 0) =>
                \E j \in 1..Len(last.ign) :
                   /\ last.ign[j].source_path = last.discovered[i].source_path
                   /\ last.ign[j].reason = <<"missing_version_separator">>

\* the version token of the path's file name: what follows the first "__"
VersionToken(p) ==
    Slice(FinalStem(p), find_sep(FinalStem(p)) + 2, Len(FinalStem(p)))

\* the warning is there exactly when the file's version token is off pattern
GoodWarning(m, p) ==
    IF version_re_match(VersionToken(p))
    THEN "_version_warning" \notin DOMAIN m
    ELSE DictGet(m, "_version_warning") = "non_standard_version_format"

\* C16 (SpecBuilder): for every path that passes the checks and whose file
\* name has a version token, the parser returns valid metadata, with the
\* warning non_standard_version_format when the token is off the pattern and
\* without warning when it matches; a builder call that returns has the
\* readable ones of these files in valid, with the same warning.
C16_VersionWarningOnly ==
    /\ (/\ last.op = "parse"
        /\ PassesChecks(last.source_path)
        /\ find_sep(FinalStem(last.source_path)) # 0) =>
          /\ last.raised = ""
          /\ last.err = <<>>
          /\ DOMAIN last.meta # {}
          /\ GoodWarning(last.meta, last.source_path)
    /\ (last.op = "build" /\ last.raised = "") =>
          \A i \in 1..Len(last.discovered) :
             (/\ PassesChecks(last.discovered[i].source_path)
              /\ find_sep(FinalStem(last.discovered[i].source_path)) # 0
              /\ compute_checksum(last.discovered[i].source_path, fs).raised = "") =>
                \E j \in 1..Len(last.val) :
                   /\ last.val[j].source_path = last.discovered[i].source_path
                   /\ GoodWarning(last.val[j], last.discovered[i].source_path)

\* the file of a path can be discovered: its name starts with neither "~$"
\* nor ".", and its extension is .txt, .pdf or .docx
Discoverable(p) ==
    \E fn \in {rel_table[p][Len(rel_table[p])]} :
       /\ fn[1] # "."
       /\ ~(Len(fn) >= 2 /\ fn[1] = "~" /\ fn[2] = "$")
       /\ splitext(fn)[2] \in {E_txt, E_pdf, E_docx}

\* C17 (SpecBuilder): discovery over the existing raw directory returns,
\* without raising, exactly the discoverable files the directory holds.
C17_DiscoveryReturnsFiles ==
    last.op = "discover" =>
       /\ last.raised = ""
       /\ {last.results[i].source_path : i \in 1..Len(last.results)}
            = {p \in DOMAIN fs : fs[p] # Absent /\ Discoverable(p)}

\* C18 (SpecBuilder): ingest_file(path, root) returns without raising; it
\* returns true exactly when the path passes metadata validation (the checks
\* and the "__" of the file name), having called the reindex step exactly
\* once, and false otherwise, having not called it.
C18_IngestFileReturnsBool ==
    last.op = "ingest_file" =>
       /\ last.raised = ""
       /\ IF /\ PassesChecks(last.source_path)
             /\ find_sep(FinalStem(last.source_path)) # 0
          THEN last.ret = TRUE /\ last.reindex_calls = 1
          ELSE last.ret = FALSE /\ last.reindex_calls = 0

\* C19 (SpecProvider): at every moment all stored embeddings have one
\* length, which is also the length of the query vector of every search: an
\* add or a search that would mix lengths is rejected.
C19_OneDimensionality ==
    /\ \A i, j \in 1..Len(data) :
          Len(data[i].embedding) = Len(data[j].embedding)
    /\ last.op = "search" =>
          \A i \in 1..Len(data) : Len(data[i].embedding) = Len(embed(last.query))

\* the Document of a store entry, as a search returns it
DocOf(e) == [page_content |-> e.page_content, metadata |-> e.metadata]

\* C20 as stated (SpecStore): a search with k = 1 for the text of the one
\* entry the step before added returns that entry, with the maximal score
\* over the store, 1.0 when the entry's embedding is not zero.
C20_SelfFirst ==
    [][(last'.op = "search" /\ last'.after_add /\ last'.k = 1) =>
          \E score \in {[i \in 1..Len(data) |->
                           cosine(embed(last'.query), data[i].embedding)]} :
             /\ Len(last'.result) = 1
             /\ last'.result[1][1] = DocOf(data[Len(data)])
             /\ last'.result[1][1] = last.documents[1]
             /\ \A i \in 1..Len(data) : ~ScoreLt(last'.result[1][2], score[i])
             /\ (Dot(embed(last'.query), embed(last'.query)) # 0 =>
                   ScoreEq(last'.result[1][2], <<1, 1>>))]_vars

\* C20 as amended (SpecStore): a search with k = 1 for the text of the one
\* entry the step before added returns one result, whose score is that of
\* the added entry and the maximal one over the store, 1.0 when the entry's
\* embedding is not zero; the result is the earliest entry of the store with
\* that score, so it is the added entry when no earlier entry has its score.
C20_SelfScoreFirst ==
    [][(last'.op = "search" /\ last'.after_add /\ last'.k = 1) =>
          \E score \in {[i \in 1..Len(data) |->
                           cosine(embed(last'.query), data[i].embedding)]} :
             /\ data[Len(data)].page_content = last.documents[1].page_content
             /\ data[Len(data)].metadata = last.documents[1].metadata
             /\ Len(last'.result) = 1
             /\ ScoreEq(last'.result[1][2], score[Len(data)])
             /\ \A i \in 1..Len(data) : ~ScoreLt(last'.result[1][2], score[i])
             /\ (Dot(embed(last'.query), embed(last'.query)) # 0 =>
                   ScoreEq(last'.result[1][2], <<1, 1>>))
             /\ \E j \in 1..Len(data) :
                   /\ ScoreEq(score[j], score[Len(data)])
                   /\ \A i \in 1..(j - 1) : ~ScoreEq(score[i], score[Len(data)])
                   /\ last'.result[1][1] = DocOf(data[j])
             /\ ((\A i \in 1..(Len(data) - 1) : ~ScoreEq(score[i], score[Len(data)]))
                   => last'.result[1][1] = last.documents[1])]_vars

\* such a search found the added entry behind entries of smaller score
C20_Witness ==
    /\ last.op = "search"
    /\ last.after_add
    /\ last.k = 1
    /\ Len(data) >= 3
    /\ last.result[1][1] = DocOf(data[Len(data)])
    /\ last.result[1][1] # DocOf(data[1])
    /\ ScoreEq(last.result[1][2], <<1, 1>>)

-----------------------------------------------------------------------------
(* Answers without the language model *)

\* the positions of hits whose score is not below min_score
PassingHits(hits, min_score) == {i \in 1..Len(hits) : ~ScoreLt(hits[i][2], min_score)}

\* the n-th position of the set P of positions, in increasing order
NthOf(P, n) == CHOOSE i \in P : Cardinality({j \in P : j < i}) = n - 1

\* ctx is the texts of the hits at the positions P, in the order of the
\* hits, with CTX_SEP between consecutive texts and nothing else
ContextOf(ctx, hits, P) ==
    LET N == Cardinality(P)
        text(n) == hits[NthOf(P, n)][1].page_content
        start(n) == SumSeq([m \in 1..(n - 1) |-> Len(text(m)) + Len(CTX_SEP)])
    IN /\ Len(ctx) = start(N) + Len(text(N))
       /\ \A n \in 1..N : Slice(ctx, start(n) + 1, start(n) + Len(text(n))) = text(n)
       /\ \A n \in 1..(N - 1) :
             Slice(ctx, start(n) + Len(text(n)) + 1, start(n + 1)) = CTX_SEP

\* srcs is the source_path values of the hits at the positions P, each
\* once, in the order of their first occurrence
SourcesOf(srcs, hits, P) ==
    LET src(i) == hits[i][1].metadata["source_path"]
        first(v) == CHOOSE i \in P : src(i) = v /\ \A j \in P : src(j) = v => i <= j
    IN /\ {srcs[a] : a \in 1..Len(srcs)} = {src(i) : i \in P}
       /\ \A a, b \in 1..Len(srcs) : a < b => first(srcs[a]) < first(srcs[b])

\* answer is the fallback answer that summarises the texts of the hits at
\* the positions P: a headline, then the first two texts, numbered, cut to
\* SNIPPET_LEN characters and with their line breaks turned into spaces
SummaryOf(answer, hits, P) ==
    LET N == Min(2, Cardinality(P))
        text(n) == hits[NthOf(P, n)][1].page_content
    IN /\ Len(answer) = N + 1
       /\ answer[1] = "Contexto encontrado, mas o LLM esta indisponivel. Resumo do contexto:"
       /\ \A n \in 1..N :
             /\ answer[n + 1][1] = n
             /\ Len(answer[n + 1][2]) = Min(SNIPPET_LEN, Len(text(n)))
             /\ \A c \in 1..Len(answer[n + 1][2]) :
                   answer[n + 1][2][c] = IF text(n)[c] = LF THEN SP ELSE text(n)[c]

\* C21: with the language model unavailable, generate does not raise, and
\* once the hits are retrieved: if some hit has score >= min_score the
\* result has status "success", the fallback answer that summarises the
\* context, the context made of exactly the hits with score >= min_score in
\* ranked order, and as sources those hits' source_path values without
\* repetition in first-occurrence order; if no hit has score >= min_score
\* the result has status "no_context" and no sources.
C21_FallbackAnswer ==
    (last.op = "generate" /\ last.llm # "ok") =>
       /\ last.raised = ""
       /\ last.result.retrieved =>
            \E hits \in {last.result.hits} :
            \E P \in {PassingHits(hits, last.min_score)} :
               /\ SearchOK(data, last.result.question, last.k, hits)
               /\ IF P # {}
                  THEN /\ last.result.status = "success"
                       /\ ContextOf(last.result.context, hits, P)
                       /\ SourcesOf(last.result.sources, hits, P)
                       /\ SummaryOf(last.result.answer, hits, P)
                  ELSE /\ last.result.status = "no_context"
                       /\ last.result.sources = <<>>

\* a fallback answer over three hits of two files, one of them below
\* min_score, so that two hits of the same file are kept
C21_Witness ==
    /\ last.op = "generate"
    /\ last.llm # "ok"
    /\ last.result.status = "success"
    /\ Len(last.result.hits) = 3
    /\ Cardinality(PassingHits(last.result.hits, last.min_score)) = 2
    /\ Len(last.result.sources) = 1

-----------------------------------------------------------------------------
(* Reindexing with nothing to add *)

\* the entries of d whose doc_id is not doc_id, in their order
OtherDocs(d, doc_id) ==
    LET Other(e) == DictGet(e.metadata, "doc_id") # doc_id
    IN SelectSeq(d, Other)

\* C22 (SpecReindex): a reindex of a doc_id with an empty chunk list still
\* runs the delete step: it returns 0 without raising and without the add
\* step, afterwards the store holds no entry with that doc_id and the
\* entries of the other doc_ids are as they were, in their order; when the
\* delete's write went through, the file holds the same.
C22_EmptyReindexDeletes ==
    [][(last'.op = "reindex" /\ last'.chunks = <<>>) =>
          /\ last'.raised = ""
          /\ last'.ret = 0
          /\ ~last'.added
          /\ CountKey(data', "doc_id", last'.doc_id) = 0
          /\ data' = OtherDocs(data, last'.doc_id)
          /\ (last'.env.del = "ok" => _load(file') = data')]_vars

\* an empty reindex removed a document's entries and left another's
C22_Witness ==
    /\ last.op = "reindex"
    /\ last.chunks = <<>>
    /\ last.ret = 0
    /\ last.n_before = 2
    /\ Len(data) = 1
    /\ DictGet(data[1].metadata, "doc_id") # last.doc_id

-----------------------------------------------------------------------------
(* Failed writes *)

\* C23 (SpecStore): an add or delete call whose write of the store file
\* fails leaves the store as it was before the call: the in-memory entry
\* list after the call is the list before it and is what the file holds.
C23_FailedWriteLeavesStore ==
    [][(last'.op \in {"add", "delete"} /\ last'.raised = "OSError") =>
          /\ data' = data
          /\ _load(file') = data']_vars

=============================================================================
